---- MODULE Spec2Model ----
(***************************************************************************)
(* Binary-buddy physical page allocator of kernel/buddy_alloc.c.           *)
(*                                                                         *)
(* The tree is scaled down: the source has DEPTH = 15 (PAGES = 16384) and  *)
(* rejects requests above 512 pages; here DEPTH is a small bound, PAGES,   *)
(* NODES follow from it as in the source, and the request cap MAXALLOC is  *)
(* kept strictly below PAGES as in the source.  Node pointers are node     *)
(* ids (indices of buddy_metadata.nodes), the null pointer is NULL.        *)
(* Addresses are byte addresses.                                           *)
(***************************************************************************)
EXTENDS Integers, Sequences, FiniteSets, Bags, TLC

\* ------------------------------------------------------------------ bounds
DEPTH == 4          \* levels of the tree (15 in the source)
MaxLive == 3        \* most allocations outstanding at once in a run
NPROCS == 2         \* concurrent callers

\* --------------------------------------------------------------- constants
RECURSIVE Pow2(_)
Pow2(k) == IF k = 0 THEN 1 ELSE 2 * Pow2(k - 1)

PAGES == Pow2(DEPTH - 1)
NODES == 2 * PAGES - 1
MAXALLOC == PAGES \div 2    \* the "n > 512" cap, scaled with PAGES

PGSIZE == 4096
KERNBASE == 1048576
end == KERNBASE + 5000                       \* first address after the kernel image
PHYSTOP == KERNBASE + 2 * PAGES * PGSIZE     \* PAGES is half of all memory

PGROUNDUP(sz) == ((sz + PGSIZE - 1) \div PGSIZE) * PGSIZE

NULL == -1          \* null struct node*
NOEXIST == 0
USED == 1
INNER == 2
FREE == 3

Ids == 0 .. (NODES - 1)
Levels == 0 .. (DEPTH - 1)

\* ------------------------------------------------------------------- state
VARIABLES
    buddy_metadata,  \* [lock, nodes, lists, sizes]: the struct of the source
    outstanding,     \* ghost: bag of [addr, n] returned by buddy_alloc, not yet freed
    last,            \* ghost: the last public call, its argument and outcome
    rt,              \* ghost: [tag, n, pre] state before the last successful alloc
    oom,             \* ghost: [tag, n] progress of fail / free / retry
    fill,            \* ghost: [open, rets] results of the alloc(1) calls since init
    procs            \* concurrent callers: position and locals of each

vars == <<buddy_metadata, outstanding, last, rt, oom, fill, procs>>

\* ------------------------------------------------------------ buddy_init
\* mutant of InitNode: a right child starts one page, not size pages, after
\* its parent
RECURSIVE InitNode_PageStep(_)
InitNode_PageStep(id) ==
    IF id = 0
    THEN [state |-> FREE, id |-> 0, size |-> PAGES, lvl |-> DEPTH - 1,
          left_child |-> 1, right_child |-> 2, prev |-> NULL, next |-> NULL,
          parent |-> 0, neighbour |-> 0, memory |-> PGROUNDUP(end)]
    ELSE LET parent == InitNode_PageStep((id - 1) \div 2)
             size == parent.size \div 2
         IN  [state |-> NOEXIST, id |-> id, size |-> size, lvl |-> parent.lvl - 1,
              left_child |-> IF id < NODES \div 2 THEN 2 * id + 1 ELSE NULL,
              right_child |-> IF id < NODES \div 2 THEN 2 * id + 2 ELSE NULL,
              prev |-> NULL, next |-> NULL,
              parent |-> parent.id,
              neighbour |-> IF id % 2 = 1 THEN id + 1 ELSE id - 1,
              memory |-> IF id % 2 = 1 THEN parent.memory
                         ELSE parent.memory + PGSIZE]

RECURSIVE InitNode(_)
InitNode(id) ==
    IF id = 0
    THEN [state |-> FREE, id |-> 0, size |-> PAGES, lvl |-> DEPTH - 1,
          left_child |-> 1, right_child |-> 2, prev |-> NULL, next |-> NULL,
          parent |-> 0, neighbour |-> 0, memory |-> PGROUNDUP(end)]
    ELSE LET parent == InitNode((id - 1) \div 2)
             size == parent.size \div 2
         IN  [state |-> NOEXIST, id |-> id, size |-> size, lvl |-> parent.lvl - 1,
              left_child |-> IF id < NODES \div 2 THEN 2 * id + 1 ELSE NULL,
              right_child |-> IF id < NODES \div 2 THEN 2 * id + 2 ELSE NULL,
              prev |-> NULL, next |-> NULL,
              parent |-> parent.id,
              neighbour |-> IF id % 2 = 1 THEN id + 1 ELSE id - 1,
              memory |-> IF id % 2 = 1 THEN parent.memory
                         ELSE parent.memory + size * PGSIZE]

\* the fields of a node that buddy_init sets and no later code writes
Tree == [id \in Ids |-> InitNode(id)]

\* mutant of add_free_node: the count of the level is not incremented
add_free_node_NoCount(m, n) ==
    LET l == Tree[n].lvl
        old == m.lists[l]
        nodes1 == [m.nodes EXCEPT ![n].next = old, ![n].prev = NULL]
        nodes2 == IF old # NULL THEN [nodes1 EXCEPT ![old].prev = n] ELSE nodes1
    IN  [m EXCEPT !.lists[l] = n, !.nodes = nodes2]

\* --------------------------------------------------------- add_free_node
add_free_node(m, n) ==
    LET l == Tree[n].lvl
        old == m.lists[l]
        nodes1 == [m.nodes EXCEPT ![n].next = old, ![n].prev = NULL]
        nodes2 == IF old # NULL THEN [nodes1 EXCEPT ![old].prev = n] ELSE nodes1
    IN  [m EXCEPT !.sizes[l] = @ + 1, !.lists[l] = n, !.nodes = nodes2]

buddy_init ==
    add_free_node([lock |-> 0,
                   nodes |-> [id \in Ids |-> [state |-> Tree[id].state,
                                              prev |-> Tree[id].prev,
                                              next |-> Tree[id].next]],
                   lists |-> [l \in Levels |-> NULL],
                   sizes |-> [l \in Levels |-> 0]], 0)

\* ----------------------------------------------------------- spinlock
acquire(m) == [m EXCEPT !.lock = 1]
release(m) == [m EXCEPT !.lock = 0]

\* ------------------------------------------------------------ buddy_alloc
\* the "pow2 *= 2; lvl++" loop: <<pow2, lvl>> when it stops
RECURSIVE RoundPow2(_, _, _)
RoundPow2(n, pow2, lvl) ==
    IF pow2 < n THEN RoundPow2(n, pow2 * 2, lvl + 1) ELSE <<pow2, lvl>>

\* mutant of RequestOk: the upper limit on n is missing
RequestOk_NoCap(n) ==
    /\ ~(n <= 0)
    /\ n = RoundPow2(n, 1, 0)[1]

\* mutant of RequestOk: the power-of-two check is missing
RequestOk_NoPow2Check(n) ==
    ~(n <= 0 \/ n > MAXALLOC)

\* the request passes the checks made before the lock is taken
RequestOk(n) ==
    /\ ~(n <= 0 \/ n > MAXALLOC)
    /\ n = RoundPow2(n, 1, 0)[1]

\* mutant of FindSplitLvl: the scan stops one level below the root
RECURSIVE FindSplitLvl_OffByOne(_, _)
FindSplitLvl_OffByOne(m, idx) ==
    IF idx < DEPTH - 1
    THEN IF m.sizes[idx] > 0 THEN idx ELSE FindSplitLvl_OffByOne(m, idx + 1)
    ELSE -1

\* mutant of FindSplitLvl: no "break", the last level with a free node wins
RECURSIVE FindSplitLvl_Highest(_, _)
FindSplitLvl_Highest(m, idx) ==
    IF idx < DEPTH
    THEN LET above == FindSplitLvl_Highest(m, idx + 1)
         IN  IF above # -1 THEN above
             ELSE IF m.sizes[idx] > 0 THEN idx ELSE -1
    ELSE -1

\* the scan "for idx = lvl .. DEPTH-1": first level with a free node, or -1
RECURSIVE FindSplitLvl(_, _)
FindSplitLvl(m, idx) ==
    IF idx < DEPTH
    THEN IF m.sizes[idx] > 0 THEN idx ELSE FindSplitLvl(m, idx + 1)
    ELSE -1

\* mutant of Unlink: the count of the level is not decremented
Unlink_NoCount(m, c) ==
    LET p == m.nodes[c].prev
        x == m.nodes[c].next
        l == Tree[c].lvl
        m1 == IF p # NULL THEN [m EXCEPT !.nodes[p].next = x]
                          ELSE [m EXCEPT !.lists[l] = x]
        m2 == IF x # NULL THEN [m1 EXCEPT !.nodes[x].prev = p] ELSE m1
    IN  [m2 EXCEPT !.nodes[c].prev = NULL, !.nodes[c].next = NULL]

\* unlink node c from the free list of its level and clear its links
Unlink(m, c) ==
    LET p == m.nodes[c].prev
        x == m.nodes[c].next
        l == Tree[c].lvl
        m1 == IF p # NULL THEN [m EXCEPT !.nodes[p].next = x]
                          ELSE [m EXCEPT !.lists[l] = x]
        m2 == IF x # NULL THEN [m1 EXCEPT !.nodes[x].prev = p] ELSE m1
    IN  [m2 EXCEPT !.sizes[l] = @ - 1, !.nodes[c].prev = NULL, !.nodes[c].next = NULL]

\* mutant of SplitDown: the left child, not the right, goes on the free list
RECURSIVE SplitDown_LeftListed(_, _, _)
SplitDown_LeftListed(m, c, lvl) ==
    IF Tree[c].lvl > lvl
    THEN LET r == Tree[c].left_child
             m1 == [m EXCEPT !.nodes[c].state = INNER]
             m2 == add_free_node(m1, r)
             m3 == [m2 EXCEPT !.nodes[r].state = FREE]
         IN  SplitDown_LeftListed(m3, Tree[c].left_child, lvl)
    ELSE <<[m EXCEPT !.nodes[c].state = USED], c>>

\* mutant of SplitDown: the right child is listed but not marked FREE
RECURSIVE SplitDown_RightNotMarked(_, _, _)
SplitDown_RightNotMarked(m, c, lvl) ==
    IF Tree[c].lvl > lvl
    THEN LET r == Tree[c].right_child
             m1 == [m EXCEPT !.nodes[c].state = INNER]
             m2 == add_free_node(m1, r)
         IN  SplitDown_RightNotMarked(m2, Tree[c].left_child, lvl)
    ELSE <<[m EXCEPT !.nodes[c].state = USED], c>>

\* mutant of SplitDown: the descent goes right and the left child is listed
RECURSIVE SplitDown_RightDescent(_, _, _)
SplitDown_RightDescent(m, c, lvl) ==
    IF Tree[c].lvl > lvl
    THEN LET l == Tree[c].left_child
             m1 == [m EXCEPT !.nodes[c].state = INNER]
             m2 == add_free_node(m1, l)
             m3 == [m2 EXCEPT !.nodes[l].state = FREE]
         IN  SplitDown_RightDescent(m3, Tree[c].right_child, lvl)
    ELSE <<[m EXCEPT !.nodes[c].state = USED], c>>

\* the split loop: <<metadata, node made USED>>
RECURSIVE SplitDown(_, _, _)
SplitDown(m, c, lvl) ==
    IF Tree[c].lvl > lvl
    THEN LET r == Tree[c].right_child
             m1 == [m EXCEPT !.nodes[c].state = INNER]
             m2 == add_free_node(m1, r)
             m3 == [m2 EXCEPT !.nodes[r].state = FREE]
         IN  SplitDown(m3, Tree[c].left_child, lvl)
    ELSE <<[m EXCEPT !.nodes[c].state = USED], c>>

\* [m: metadata after the call, ret: address or 0, acquired: lock was taken]
buddy_alloc(m, n) ==
    IF ~RequestOk(n)
    THEN [m |-> m, ret |-> 0, acquired |-> FALSE]
    ELSE LET lvl == RoundPow2(n, 1, 0)[2]
             m1 == acquire(m)
             split_lvl == FindSplitLvl(m1, lvl)
         IN  IF split_lvl = -1
             THEN [m |-> release(m1), ret |-> 0, acquired |-> TRUE]
             ELSE LET s == SplitDown(Unlink(m1, m1.lists[split_lvl]),
                                     m1.lists[split_lvl], lvl)
                  IN  [m |-> release(s[1]), ret |-> Tree[s[2]].memory,
                       acquired |-> TRUE]

\* ------------------------------------------------------------- buddy_free
\* the check made before the lock is taken
BadPointer(pa) ==
    pa = 0 \/ pa % PGSIZE # 0 \/ pa < end \/ pa >= PHYSTOP

\* descent from the root while the node is INNER
RECURSIVE Locate(_, _, _)
Locate(m, c, pa) ==
    IF m.nodes[c].state = INNER
    THEN IF Tree[Tree[c].right_child].memory > pa
         THEN Locate(m, Tree[c].left_child, pa)
         ELSE Locate(m, Tree[c].right_child, pa)
    ELSE c

\* mutant of Coalesce: the buddy keeps its FREE state when it is merged
RECURSIVE Coalesce_BuddyKept(_, _)
Coalesce_BuddyKept(m, c) ==
    LET b == Tree[c].neighbour IN
    IF Tree[c].id # 0 /\ m.nodes[b].state = FREE
    THEN LET m1 == [m EXCEPT !.nodes[c].state = NOEXIST]
         IN  Coalesce_BuddyKept(Unlink(m1, b), Tree[c].parent)
    ELSE <<m, c>>

\* mutant of Coalesce: an "if" for the "while", one merge at most
Coalesce_Once(m, c) ==
    LET b == Tree[c].neighbour IN
    IF Tree[c].id # 0 /\ m.nodes[b].state = FREE
    THEN LET m1 == [m EXCEPT !.nodes[c].state = NOEXIST]
             m2 == [m1 EXCEPT !.nodes[b].state = NOEXIST]
         IN  <<Unlink(m2, b), Tree[c].parent>>
    ELSE <<m, c>>

\* mutant of Coalesce: two children of the root are never merged
RECURSIVE Coalesce_NotIntoRoot(_, _)
Coalesce_NotIntoRoot(m, c) ==
    LET b == Tree[c].neighbour IN
    IF Tree[c].id # 0 /\ Tree[c].parent # 0 /\ m.nodes[b].state = FREE
    THEN LET m1 == [m EXCEPT !.nodes[c].state = NOEXIST]
             m2 == [m1 EXCEPT !.nodes[b].state = NOEXIST]
         IN  Coalesce_NotIntoRoot(Unlink(m2, b), Tree[c].parent)
    ELSE <<m, c>>

\* mutant of Coalesce: the buddy is merged unless it is INNER
RECURSIVE Coalesce_AnyBuddy(_, _)
Coalesce_AnyBuddy(m, c) ==
    LET b == Tree[c].neighbour IN
    IF Tree[c].id # 0 /\ m.nodes[b].state # INNER
    THEN LET m1 == [m EXCEPT !.nodes[c].state = NOEXIST]
             m2 == [m1 EXCEPT !.nodes[b].state = NOEXIST]
         IN  Coalesce_AnyBuddy(Unlink(m2, b), Tree[c].parent)
    ELSE <<m, c>>

\* the coalescing loop: <<metadata, node to be made FREE>>
RECURSIVE Coalesce(_, _)
Coalesce(m, c) ==
    LET b == Tree[c].neighbour IN
    IF Tree[c].id # 0 /\ m.nodes[b].state = FREE
    THEN LET m1 == [m EXCEPT !.nodes[c].state = NOEXIST]
             m2 == [m1 EXCEPT !.nodes[b].state = NOEXIST]
         IN  Coalesce(Unlink(m2, b), Tree[c].parent)
    ELSE <<m, c>>

\* mutant of MakeFree: the node becomes FREE but is not put on its list
MakeFree_NotListed(m, c) ==
    [m EXCEPT !.nodes[c].state = FREE]

\* the node the loop stopped at goes on its free list and becomes FREE
MakeFree(m, c) ==
    LET m1 == add_free_node(m, c) IN [m1 EXCEPT !.nodes[c].state = FREE]

\* mutant of NotAllocatedAt: the address is not compared with the block's
NotAllocatedAt_AnyAddress(m, c, pa) ==
    m.nodes[c].state # USED

\* the located node is not an allocated block starting at pa
NotAllocatedAt(m, c, pa) ==
    m.nodes[c].state # USED \/ Tree[c].memory # pa

\* [m: metadata when the call returns or panics, panic, acquired]
buddy_free(m, pa) ==
    IF BadPointer(pa)
    THEN [m |-> m, panic |-> TRUE, acquired |-> FALSE]
    ELSE LET m1 == acquire(m)
             c == Locate(m1, 0, pa)
         IN  IF NotAllocatedAt(m1, c, pa)
             THEN [m |-> m1, panic |-> TRUE, acquired |-> TRUE]
             ELSE IF Tree[c].id = 0
             THEN [m |-> release(MakeFree(m1, c)),
                   panic |-> FALSE, acquired |-> TRUE]
             ELSE LET k == Coalesce(m1, c)
                  IN  [m |-> release(MakeFree(k[1], k[2])),
                       panic |-> FALSE, acquired |-> TRUE]

\* ------------------------------------------------------------------ inputs
AllocInputs ==
    {Pow2(k) : k \in 0 .. (DEPTH - 1)}          \* 1, 2, .. PAGES
        \cup {-1, 0, 3}

Base == PGROUNDUP(end)

FreeInputs ==
    {Base + p * PGSIZE : p \in 0 .. PAGES}      \* pages of the arena, one past
        \cup {0, Base - PGSIZE, Base + PGSIZE \div 2, PHYSTOP}

\* the outstanding allocations, as a set
Live == BagToSet(outstanding)

\* page count of the outstanding allocation at pa (0 when there is none)
SizeAt(pa) ==
    IF \E a \in Live : a.addr = pa
    THEN (CHOOSE a \in Live : a.addr = pa).n
    ELSE 0

\* the concurrent callers, and a caller between two calls
Procs == 1 .. NPROCS

Idle ==
    [pc |-> "idle", n |-> 0, pa |-> 0, lvl |-> 0, idx |-> 0, cur |-> 0,
     ret |-> 0,
     held |-> {},          \* addresses the caller got and has not freed
     iter |-> 0,           \* ghost: bodies of the current loop executed
     holds |-> FALSE,      \* ghost: the caller has the lock
     unlocked |-> FALSE]   \* ghost: it touched shared data without the lock

\* ----------------------------------------------------------------- actions
Init ==
    /\ buddy_metadata = buddy_init
    /\ outstanding = EmptyBag
    /\ last = [op |-> "init", arg |-> 0, ret |-> 0, panic |-> FALSE,
               acquired |-> FALSE]
    /\ rt = [tag |-> "none", n |-> 0, pre |-> <<>>]
    /\ oom = [tag |-> "none", n |-> 0]
    /\ fill = [open |-> TRUE, rets |-> <<>>]
    /\ procs = [p \in Procs |-> Idle]

\* one call of buddy_alloc by the only caller, who holds fewer than cap blocks
AllocCall(n, cap) ==
    LET r == buddy_alloc(buddy_metadata, n) IN
    /\ ~last.panic
    /\ r.ret # 0 => BagCardinality(outstanding) < cap
    /\ buddy_metadata' = r.m
    /\ outstanding' = IF r.ret # 0
                      THEN outstanding (+) SetToBag({[addr |-> r.ret, n |-> n]})
                      ELSE outstanding
    /\ last' = [op |-> "alloc", arg |-> n, ret |-> r.ret, panic |-> FALSE,
                acquired |-> r.acquired]
    /\ rt' = IF r.ret # 0 THEN [tag |-> "alloc", n |-> n, pre |-> <<buddy_metadata>>]
             ELSE [tag |-> "none", n |-> 0, pre |-> <<>>]
    /\ oom' = IF oom.tag = "freed" /\ oom.n = n THEN [tag |-> "retried", n |-> n]
              ELSE IF r.ret = 0 /\ r.acquired THEN [tag |-> "failed", n |-> n]
              ELSE [tag |-> "none", n |-> 0]

\* one call of buddy_free by the only caller
FreeCall(pa) ==
    LET r == buddy_free(buddy_metadata, pa) IN
    /\ ~last.panic
    /\ buddy_metadata' = r.m
    /\ outstanding' = IF r.panic \/ SizeAt(pa) = 0 THEN outstanding
                      ELSE outstanding (-) SetToBag({[addr |-> pa, n |-> SizeAt(pa)]})
    /\ last' = [op |-> "free", arg |-> pa, ret |-> 0, panic |-> r.panic,
                acquired |-> r.acquired]
    /\ rt' = IF rt.tag = "alloc" /\ last.ret = pa /\ ~r.panic
             THEN [tag |-> "freed", n |-> rt.n, pre |-> rt.pre]
             ELSE [tag |-> "none", n |-> 0, pre |-> <<>>]
    /\ oom' = IF oom.tag = "failed" /\ ~r.panic /\ SizeAt(pa) >= oom.n
              THEN [tag |-> "freed", n |-> oom.n]
              ELSE [tag |-> "none", n |-> 0]

Alloc(n) ==
    /\ AllocCall(n, MaxLive)
    /\ UNCHANGED <<fill, procs>>

Free(pa) ==
    /\ FreeCall(pa)
    /\ UNCHANGED <<fill, procs>>

Next ==
    \/ \E n \in AllocInputs : Alloc(n)
    \/ \E pa \in FreeInputs : Free(pa)

Spec == Init /\ [][Next]_vars

\* ---------------------------------------------- filling the whole arena
\* One caller asks for single pages until none is left, and may give back
\* the page it got last; requests that are turned down before the lock are
\* mixed in.
FillInputs == {1, 0, 3, PAGES}

\* the outstanding block of the highest address, and pointers that panic
DrainInputs ==
    {a.addr : a \in {b \in Live : \A c \in Live : c.addr <= b.addr}}
        \cup {0, Base + PGSIZE \div 2, Base + PAGES * PGSIZE}

FillAlloc(n) ==
    /\ AllocCall(n, PAGES + 1)
    /\ fill' = IF n = 1 /\ fill.open /\ Len(fill.rets) <= PAGES
               THEN [fill EXCEPT !.rets = Append(@, last'.ret)]
               ELSE fill
    /\ UNCHANGED procs

FillFree(pa) ==
    /\ FreeCall(pa)
    /\ fill' = [open |-> FALSE, rets |-> <<>>]
    /\ UNCHANGED procs

NextFill ==
    \/ \E n \in FillInputs : FillAlloc(n)
    \/ \E pa \in DrainInputs : FillFree(pa)

SpecFill == Init /\ [][NextFill]_vars

\* ------------------------------------------------- concurrent callers
\* NPROCS callers run buddy_alloc and buddy_free statement by statement: one
\* step is one test of a loop condition with the body that follows it, or
\* one straight-line group of statements.  No step but the acquire waits
\* for the lock.

\* mutant of ScanStep: "++idx" is missing
ScanStep_NoAdvance(m, idx) ==
    IF idx < DEPTH
    THEN IF m.sizes[idx] > 0 THEN <<"found", idx>> ELSE <<"scan", idx>>
    ELSE <<"none", idx>>

\* one round of the scan for split_lvl: <<what the round did, idx after it>>
ScanStep(m, idx) ==
    IF idx < DEPTH
    THEN IF m.sizes[idx] > 0 THEN <<"found", idx>> ELSE <<"scan", idx + 1>>
    ELSE <<"none", idx>>

\* mutant of AllocFail: the path that finds no free node keeps the lock
AllocFail_NoRelease(m) ==
    m

\* no free node was found
AllocFail(m) ==
    release(m)

\* mutant of SplitStep: the right child is listed but not marked FREE
SplitStep_RightNotMarked(m, c) ==
    LET r == Tree[c].right_child
        m1 == [m EXCEPT !.nodes[c].state = INNER]
    IN  <<add_free_node(m1, r), Tree[c].left_child>>

\* one body of the split loop: <<metadata, next current_node>>
SplitStep(m, c) ==
    LET r == Tree[c].right_child
        m1 == [m EXCEPT !.nodes[c].state = INNER]
        m2 == add_free_node(m1, r)
        m3 == [m2 EXCEPT !.nodes[r].state = FREE]
    IN  <<m3, Tree[c].left_child>>

\* one body of the descent to the block of pa: the next current_node
LocateStep(c, pa) ==
    IF Tree[Tree[c].right_child].memory > pa
    THEN Tree[c].left_child
    ELSE Tree[c].right_child

\* one body of the coalescing loop: <<metadata, next current_node>>
CoalesceStep(m, c) ==
    LET b == Tree[c].neighbour
        m1 == [m EXCEPT !.nodes[c].state = NOEXIST]
        m2 == [m1 EXCEPT !.nodes[b].state = NOEXIST]
    IN  <<Unlink(m2, b), Tree[c].parent>>

ConcAllocInputs == {1, MAXALLOC, 3}

AllocPcs == {"a_acquire", "a_scan", "a_oom", "a_take", "a_split", "a_release"}

\* blocks handed out or about to be
InFlight ==
    Cardinality(UNION {procs[p].held : p \in Procs})
        + Cardinality({p \in Procs : procs[p].pc \in AllocPcs})

\* ghost: the step reads or writes a state, a link, a list head or a count
Touch(q) == [q EXCEPT !.unlocked = @ \/ ~q.holds]

\* ghost: one more body of the loop (counted up to DEPTH + 1)
Bump(q) == [q EXCEPT !.iter = IF @ > DEPTH THEN @ ELSE @ + 1]

Ghosts == UNCHANGED <<outstanding, last, rt, oom, fill>>

\* buddy_alloc up to the acquire: the checks on n and the rounding loop
CallAlloc(p, n) ==
    LET me == procs[p] IN
    /\ me.pc = "idle"
    /\ IF ~RequestOk(n)
       THEN procs' = [procs EXCEPT ![p] = [me EXCEPT !.pc = "ret", !.n = n, !.ret = 0]]
       ELSE /\ InFlight < MaxLive
            /\ procs' = [procs EXCEPT ![p] =
                   [me EXCEPT !.pc = "a_acquire", !.n = n,
                              !.lvl = RoundPow2(n, 1, 0)[2]]]
    /\ UNCHANGED buddy_metadata
    /\ Ghosts

AllocAcquire(p) ==
    LET me == procs[p] IN
    /\ me.pc = "a_acquire"
    /\ buddy_metadata.lock = 0
    /\ buddy_metadata' = acquire(buddy_metadata)
    /\ procs' = [procs EXCEPT ![p] =
           [me EXCEPT !.pc = "a_scan", !.idx = me.lvl, !.iter = 0, !.holds = TRUE]]
    /\ Ghosts

AllocScan(p) ==
    LET me == procs[p]
        s == ScanStep(buddy_metadata, me.idx)
    IN  /\ me.pc = "a_scan"
        /\ procs' = [procs EXCEPT ![p] =
               IF s[1] = "none" THEN [me EXCEPT !.pc = "a_oom"]
               ELSE Touch(Bump([me EXCEPT !.idx = s[2],
                                          !.pc = IF s[1] = "found" THEN "a_take"
                                                 ELSE "a_scan"]))]
        /\ UNCHANGED buddy_metadata
        /\ Ghosts

AllocOom(p) ==
    LET me == procs[p]
        m == AllocFail(buddy_metadata)
    IN  /\ me.pc = "a_oom"
        /\ buddy_metadata' = m
        /\ procs' = [procs EXCEPT ![p] =
               [me EXCEPT !.pc = "ret", !.ret = 0, !.holds = (m.lock # 0)]]
        /\ Ghosts

\* the head of the list of split_lvl is taken off the list
AllocTake(p) ==
    LET me == procs[p]
        c == buddy_metadata.lists[me.idx]
    IN  /\ me.pc = "a_take"
        /\ buddy_metadata' = Unlink(buddy_metadata, c)
        /\ procs' = [procs EXCEPT ![p] =
               Touch([me EXCEPT !.pc = "a_split", !.cur = c, !.iter = 0])]
        /\ Ghosts

AllocSplit(p) ==
    LET me == procs[p]
        s == SplitStep(buddy_metadata, me.cur)
    IN  /\ me.pc = "a_split"
        /\ IF Tree[me.cur].lvl > me.lvl
           THEN /\ buddy_metadata' = s[1]
                /\ procs' = [procs EXCEPT ![p] = Touch(Bump([me EXCEPT !.cur = s[2]]))]
           ELSE /\ buddy_metadata' =
                      [buddy_metadata EXCEPT !.nodes[me.cur].state = USED]
                /\ procs' = [procs EXCEPT ![p] = Touch([me EXCEPT !.pc = "a_release"])]
        /\ Ghosts

AllocRelease(p) ==
    LET me == procs[p] IN
    /\ me.pc = "a_release"
    /\ buddy_metadata' = release(buddy_metadata)
    /\ procs' = [procs EXCEPT ![p] =
           [me EXCEPT !.pc = "ret", !.ret = Tree[me.cur].memory, !.holds = FALSE]]
    /\ Ghosts

\* buddy_free up to the acquire; the caller gives up one of its blocks
CallFree(p, pa) ==
    LET me == procs[p] IN
    /\ me.pc = "idle"
    /\ pa \in me.held
    /\ procs' = [procs EXCEPT ![p] =
           [me EXCEPT !.pc = IF BadPointer(pa) THEN "panic" ELSE "f_acquire",
                      !.pa = pa, !.held = @ \ {pa}]]
    /\ UNCHANGED buddy_metadata
    /\ Ghosts

FreeAcquire(p) ==
    LET me == procs[p] IN
    /\ me.pc = "f_acquire"
    /\ buddy_metadata.lock = 0
    /\ buddy_metadata' = acquire(buddy_metadata)
    /\ procs' = [procs EXCEPT ![p] =
           [me EXCEPT !.pc = "f_locate", !.cur = 0, !.iter = 0, !.holds = TRUE]]
    /\ Ghosts

FreeLocate(p) ==
    LET me == procs[p] IN
    /\ me.pc = "f_locate"
    /\ procs' = [procs EXCEPT ![p] =
           IF buddy_metadata.nodes[me.cur].state = INNER
           THEN Touch(Bump([me EXCEPT !.cur = LocateStep(me.cur, me.pa)]))
           ELSE Touch([me EXCEPT !.pc = "f_check"])]
    /\ UNCHANGED buddy_metadata
    /\ Ghosts

\* the test of the located node, and the branch for the root
FreeCheck(p) ==
    LET me == procs[p] IN
    /\ me.pc = "f_check"
    /\ IF NotAllocatedAt(buddy_metadata, me.cur, me.pa)
       THEN /\ procs' = [procs EXCEPT ![p] = Touch([me EXCEPT !.pc = "panic"])]
            /\ UNCHANGED buddy_metadata
       ELSE IF Tree[me.cur].id = 0
       THEN /\ buddy_metadata' = release(MakeFree(buddy_metadata, me.cur))
            /\ procs' = [procs EXCEPT ![p] =
                   [Touch(me) EXCEPT !.pc = "ret", !.ret = 0, !.holds = FALSE]]
       ELSE /\ procs' = [procs EXCEPT ![p] =
                   Touch([me EXCEPT !.pc = "f_coalesce", !.iter = 0])]
            /\ UNCHANGED buddy_metadata
    /\ Ghosts

FreeCoalesce(p) ==
    LET me == procs[p]
        s == CoalesceStep(buddy_metadata, me.cur)
    IN  /\ me.pc = "f_coalesce"
        /\ IF Tree[me.cur].id # 0
                /\ buddy_metadata.nodes[Tree[me.cur].neighbour].state = FREE
           THEN /\ buddy_metadata' = s[1]
                /\ procs' = [procs EXCEPT ![p] = Touch(Bump([me EXCEPT !.cur = s[2]]))]
           ELSE /\ procs' = [procs EXCEPT ![p] =
                       IF Tree[me.cur].id # 0
                       THEN Touch([me EXCEPT !.pc = "f_final"])
                       ELSE [me EXCEPT !.pc = "f_final"]]
                /\ UNCHANGED buddy_metadata
        /\ Ghosts

FreeFinal(p) ==
    LET me == procs[p] IN
    /\ me.pc = "f_final"
    /\ buddy_metadata' = MakeFree(buddy_metadata, me.cur)
    /\ procs' = [procs EXCEPT ![p] = Touch([me EXCEPT !.pc = "f_release"])]
    /\ Ghosts

FreeRelease(p) ==
    LET me == procs[p] IN
    /\ me.pc = "f_release"
    /\ buddy_metadata' = release(buddy_metadata)
    /\ procs' = [procs EXCEPT ![p] =
           [me EXCEPT !.pc = "ret", !.ret = 0, !.holds = FALSE]]
    /\ Ghosts

\* the call returns to its caller, which keeps the address it got
Return(p) ==
    LET me == procs[p] IN
    /\ me.pc = "ret"
    /\ procs' = [procs EXCEPT ![p] =
           [Idle EXCEPT !.held = IF me.ret # 0 THEN me.held \cup {me.ret}
                                 ELSE me.held,
                        !.holds = me.holds, !.unlocked = me.unlocked]]
    /\ UNCHANGED buddy_metadata
    /\ Ghosts

\* the steps of a call that is under way, but for the acquire
Body(p) ==
    \/ AllocScan(p) \/ AllocOom(p) \/ AllocTake(p) \/ AllocSplit(p)
    \/ AllocRelease(p)
    \/ FreeLocate(p) \/ FreeCheck(p) \/ FreeCoalesce(p) \/ FreeFinal(p)
    \/ FreeRelease(p)
    \/ Return(p)

Acquire(p) == AllocAcquire(p) \/ FreeAcquire(p)

NextConc ==
    \E p \in Procs :
        \/ \E n \in ConcAllocInputs : CallAlloc(p, n)
        \/ \E pa \in procs[p].held : CallFree(p, pa)
        \/ Acquire(p)
        \/ Body(p)

SpecConc == Init /\ [][NextConc]_vars

\* every caller that can take a step does, and a caller that finds the lock
\* free again and again gets it
SpecConcFair ==
    SpecConc /\ \A p \in Procs : WF_vars(Body(p)) /\ SF_vars(Acquire(p))

\* ------------------------------------------------------ claim vocabulary
State(i) == buddy_metadata.nodes[i].state

\* byte range of an outstanding allocation
RangeEnd(a) == a.addr + a.n * PGSIZE

\* nodes on the path from the parent of i up to the root
RECURSIVE Ancestors(_)
Ancestors(i) ==
    IF i = 0 THEN {} ELSE {Tree[i].parent} \cup Ancestors(Tree[i].parent)

\* the nodes whose block contains page offset p
Over == [p \in 0 .. (PAGES - 1) |->
            {i \in Ids : /\ Tree[i].memory <= Base + p * PGSIZE
                         /\ Base + p * PGSIZE < Tree[i].memory + Tree[i].size * PGSIZE}]

\* USED or FREE nodes whose block contains page offset p
Covering(p) == {i \in Over[p] : State(i) \in {USED, FREE}}

\* the nodes of level l
AtLevel == [l \in Levels |-> {i \in Ids : Tree[i].lvl = l}]

\* the nodes met from c following next, at most fuel of them
RECURSIVE Walk(_, _, _)
Walk(m, c, fuel) ==
    IF c = NULL \/ fuel = 0 THEN <<>>
    ELSE <<c>> \o Walk(m, m.nodes[c].next, fuel - 1)

FreeList(m, l) == Walk(m, m.lists[l], NODES + 1)

FreeSet(m, l) == LET s == FreeList(m, l) IN {s[k] : k \in 1 .. Len(s)}

IsPow2(n) == \E k \in 0 .. (2 * DEPTH) : n = Pow2(k)

Log2(n) == CHOOSE k \in 0 .. (2 * DEPTH) : n = Pow2(k)

\* a request buddy_alloc must refuse
Invalid(n) == n <= 0 \/ n > MAXALLOC \/ ~IsPow2(n)

Bases == {a.addr : a \in Live}

\* ------------------------------------------------------------------ claims

C2_Coverage ==
    \A p \in 0 .. (PAGES - 1) :
        /\ Cardinality(Covering(p)) = 1
        /\ \A i \in Covering(p) : \A a \in Ancestors(i) : State(a) = INNER

C2_Witness ==
    /\ last.op = "free" /\ ~last.panic
    /\ \E i, j \in Ids : State(i) = USED /\ State(j) = FREE /\ Tree[j].lvl < Tree[i].lvl

\* C3: the list headed at lists[l] holds exactly the FREE nodes of level l,
\* each once, with prev mirroring next, and sizes[l] is its length.
C3_FreeLists ==
    \A l \in Levels :
        LET s == FreeList(buddy_metadata, l) IN
        /\ Len(s) <= NODES
        /\ \A j, k \in 1 .. Len(s) : j # k => s[j] # s[k]
        /\ {s[k] : k \in 1 .. Len(s)} = {i \in AtLevel[l] : State(i) = FREE}
        /\ buddy_metadata.sizes[l] = Len(s)
        /\ \A k \in 1 .. Len(s) :
              buddy_metadata.nodes[s[k]].prev = IF k = 1 THEN NULL ELSE s[k - 1]

C3_Witness ==
    /\ last.op = "free" /\ ~last.panic
    /\ \E l \in Levels : buddy_metadata.sizes[l] >= 2

\* C4: no two siblings are both FREE.
C4_EagerCoalescing ==
    \A i \in Ids \ {0} : ~(State(i) = FREE /\ State(Tree[i].neighbour) = FREE)

C4_Witness ==
    /\ last.op = "free" /\ ~last.panic
    /\ \E i \in Ids \ {0} : State(i) = FREE /\ Tree[i].memory = last.arg
                            /\ Tree[i].lvl >= 1
    /\ outstanding # EmptyBag

\* C5: buddy_free of the address buddy_alloc has just returned restores every
\* level's set of listed FREE nodes, every count and every node's state.
C5_RoundTrip ==
    rt.tag = "freed" =>
        LET pre == rt.pre[1] IN
        /\ \A l \in Levels :
              /\ FreeSet(buddy_metadata, l) = FreeSet(pre, l)
              /\ buddy_metadata.sizes[l] = pre.sizes[l]
        /\ \A i \in Ids : State(i) = pre.nodes[i].state

C5_Witness ==
    /\ rt.tag = "freed"
    /\ rt.pre[1].sizes[Log2(rt.n)] = 0       \* the alloc had to split
    /\ outstanding # EmptyBag

\* C6: an invalid request returns null, takes no lock and changes nothing.
C6_InvalidRequest ==
    [][ (last'.op = "alloc" /\ Invalid(last'.arg)) =>
            /\ last'.ret = 0
            /\ ~last'.acquired
            /\ buddy_metadata' = buddy_metadata ]_vars

C6_Witness ==
    /\ last.op = "alloc" /\ last.arg = 3 /\ last.ret = 0
    /\ outstanding # EmptyBag

\* C7: a valid request returns null exactly when no level from log2(n) up
\* has a positive count; then the lock is released and nothing has changed.
C7_OutOfMemory ==
    [][ (last'.op = "alloc" /\ ~Invalid(last'.arg)) =>
            /\ last'.acquired
            /\ buddy_metadata'.lock = 0
            /\ (last'.ret = 0) <=>
                  (\A l \in Log2(last'.arg) .. (DEPTH - 1) : buddy_metadata.sizes[l] <= 0)
            /\ last'.ret = 0 => buddy_metadata' = buddy_metadata ]_vars

C7_Witness ==
    /\ last.op = "alloc" /\ ~Invalid(last.arg) /\ last.ret = 0
    /\ \E l \in Levels : buddy_metadata.sizes[l] > 0

\* C8: buddy_free panics exactly when its argument is not the base address
\* of an outstanding allocation, and then before any node, list head or
\* count has changed.
C8_FreePanics ==
    [][ last'.op = "free" =>
            /\ last'.panic <=> (last'.arg \notin Bases)
            /\ last'.panic =>
                  /\ buddy_metadata'.nodes = buddy_metadata.nodes
                  /\ buddy_metadata'.lists = buddy_metadata.lists
                  /\ buddy_metadata'.sizes = buddy_metadata.sizes ]_vars

\* a free of an address in the middle of a USED block has panicked
C8_Witness ==
    /\ last.op = "free" /\ last.panic /\ last.acquired
    /\ \E a \in Live : a.addr < last.arg /\ last.arg < RangeEnd(a)

\* C9: a returned address is aligned to the size of its block, relative to
\* the root's memory PGROUNDUP(end), and the block lies inside the arena.
C9_Alignment ==
    (last.op = "alloc" /\ last.ret # 0) =>
        /\ Tree[0].memory = PGROUNDUP(end)
        /\ (last.ret - Tree[0].memory) % (last.arg * PGSIZE) = 0
        /\ Tree[0].memory <= last.ret
        /\ last.ret + last.arg * PGSIZE <= Tree[0].memory + PAGES * PGSIZE

C9_Witness ==
    /\ last.op = "alloc" /\ last.ret > Base /\ last.arg >= 2

\* C10: after an out-of-memory buddy_alloc(n) and the buddy_free of one
\* outstanding allocation of at least n pages, buddy_alloc(n) succeeds.
C10_Recoverable ==
    oom.tag = "retried" => last.ret # 0

C10_Witness ==
    /\ oom.tag = "retried" /\ last.ret # 0
    /\ outstanding # EmptyBag

\* C11: once every allocated block has been freed, in whatever order, the
\* allocator is as buddy_init left it: the root FREE and alone on the list
\* of level DEPTH-1, every other node NONEXISTENT, every other count 0.
C11_Drain ==
    outstanding = EmptyBag =>
        /\ State(0) = FREE
        /\ FreeList(buddy_metadata, DEPTH - 1) = <<0>>
        /\ \A i \in Ids \ {0} : State(i) = NOEXIST
        /\ \A l \in Levels :
              buddy_metadata.sizes[l] = IF l = DEPTH - 1 THEN 1 ELSE 0
        /\ \A l \in Levels \ {DEPTH - 1} : buddy_metadata.lists[l] = NULL

\* the last of several blocks has been freed, and not in reverse order
C11_Witness ==
    /\ outstanding = EmptyBag
    /\ last.op = "free" /\ ~last.panic /\ last.arg # Base

\* the node of level k reached from i through left children only
RECURSIVE LeftDescent(_, _)
LeftDescent(i, k) ==
    IF Tree[i].lvl <= k THEN i ELSE LeftDescent(Tree[i].left_child, k)

\* C13: a successful buddy_alloc(n) takes the head S of the list of the
\* smallest level split_lvl >= log2(n) with a positive count; that count
\* drops by 1, every count of a level in log2(n) .. split_lvl-1 grows by 1
\* (the right children, now FREE and listed), no other count changes; S and
\* its left descent above log2(n) are INNER, the left descendant of level
\* log2(n) is USED, and the address returned is S's memory.  On a fresh
\* allocator alloc(1) returns the arena base, leaving count 1 on the levels
\* 0 .. DEPTH-2 and 0 on level DEPTH-1.
C13_SplitChain ==
    [][ (last'.op = "alloc" /\ last'.ret # 0) =>
          LET lvl == Log2(last'.arg)
              cands == {l \in lvl .. (DEPTH - 1) : buddy_metadata.sizes[l] > 0}
              split_lvl == CHOOSE l \in cands : \A k \in cands : l <= k
              S == buddy_metadata.lists[split_lvl]
              inner == {LeftDescent(S, k) : k \in (lvl + 1) .. split_lvl}
              right == {Tree[i].right_child : i \in inner}
              used == LeftDescent(S, lvl)
          IN  /\ cands # {}
              /\ \A l \in Levels :
                    buddy_metadata'.sizes[l] =
                        buddy_metadata.sizes[l]
                          + (IF l = split_lvl THEN -1
                             ELSE IF l >= lvl /\ l < split_lvl THEN 1 ELSE 0)
              /\ S \notin FreeSet(buddy_metadata', split_lvl)
              /\ \A i \in inner : buddy_metadata'.nodes[i].state = INNER
              /\ \A i \in right :
                    /\ buddy_metadata.nodes[i].state = NOEXIST
                    /\ buddy_metadata'.nodes[i].state = FREE
                    /\ FreeList(buddy_metadata', Tree[i].lvl) = <<i>>
              /\ buddy_metadata'.nodes[used].state = USED
              /\ \A i \in Ids \ (inner \cup right \cup {used}) :
                    buddy_metadata'.nodes[i].state = buddy_metadata.nodes[i].state
              /\ last'.ret = Tree[S].memory
              /\ (buddy_metadata = buddy_init /\ last'.arg = 1) =>
                    /\ last'.ret = Base
                    /\ \A l \in Levels :
                          buddy_metadata'.sizes[l] = IF l = DEPTH - 1 THEN 0 ELSE 1
      ]_vars

\* an alloc has split a block that was neither the root nor one level up
C13_Witness ==
    /\ rt.tag = "alloc" /\ last.ret # 0
    /\ LET pre == rt.pre[1]
           lvl == Log2(rt.n)
       IN  /\ pre.sizes[lvl] = 0 /\ pre.sizes[lvl + 1] = 0
           /\ pre.sizes[DEPTH - 1] = 0
           /\ BagCardinality(outstanding) >= 2

\* the node whose block is the outstanding allocation a
NodeOf(a) == CHOOSE i \in Ids : Tree[i].memory = a.addr /\ Tree[i].size = a.n

\* the nodes below node i
Below == [i \in Ids |-> {j \in Ids : i \in Ancestors(j)}]

\* C15: across any call other than buddy_free of its own address, an
\* outstanding allocation stays outstanding with the same address and size,
\* its node stays USED, no node below it changes state and every node above
\* it stays INNER.
C15_Ownership ==
    [][ \A a \in Live :
          \/ last'.op = "free" /\ last'.arg = a.addr
          \/ LET i == NodeOf(a) IN
             /\ a \in BagToSet(outstanding')
             /\ buddy_metadata.nodes[i].state = USED
             /\ buddy_metadata'.nodes[i].state = USED
             /\ \A j \in Below[i] :
                   buddy_metadata'.nodes[j].state = buddy_metadata.nodes[j].state
             /\ \A j \in Ancestors(i) :
                   /\ buddy_metadata.nodes[j].state = INNER
                   /\ buddy_metadata'.nodes[j].state = INNER
      ]_vars

\* the buddy of an outstanding block of two or more pages has been freed
C15_Witness ==
    /\ last.op = "free" /\ ~last.panic
    /\ \E a \in Live :
          /\ a.n >= 2
          /\ Tree[Tree[NodeOf(a)].neighbour].memory = last.arg

\* the nodes on some free list
Listed == UNION {FreeSet(buddy_metadata, l) : l \in Levels}

InnerNodes == {i \in Ids : State(i) = INNER}

\* C16 as stated: of the two children of an INNER node one is USED or INNER
\* and the other is FREE or INNER, and the INNER node is on no free list.
C16_AsStated ==
    \A i \in InnerNodes :
        /\ \E x, y \in {Tree[i].left_child, Tree[i].right_child} :
              /\ x # y
              /\ State(x) \in {USED, INNER}
              /\ State(y) \in {FREE, INNER}
        /\ i \notin Listed

\* C16, amended: of the two children of an INNER node one is USED or INNER
\* and the other is USED, FREE or INNER, and the INNER node is on no free
\* list.
C16_Inner ==
    \A i \in InnerNodes :
        /\ \E x, y \in {Tree[i].left_child, Tree[i].right_child} :
              /\ x # y
              /\ State(x) \in {USED, INNER}
              /\ State(y) \in {USED, FREE, INNER}
        /\ i \notin Listed

\* an INNER node has two USED children
C16_Witness ==
    /\ last.op = "alloc" /\ last.ret # 0
    /\ \E i \in InnerNodes :
          State(Tree[i].left_child) = USED /\ State(Tree[i].right_child) = USED

\* C17 as stated: the parent of a NONEXISTENT node is USED or NONEXISTENT.
C17_AsStated ==
    \A i \in Ids \ {0} :
        State(i) = NOEXIST => State(Tree[i].parent) \in {USED, NOEXIST}

\* C17, amended: the parent of a NONEXISTENT node is USED, FREE or
\* NONEXISTENT.
C17_Nonexistent ==
    \A i \in Ids \ {0} :
        State(i) = NOEXIST => State(Tree[i].parent) \in {USED, FREE, NOEXIST}

\* after a free, NONEXISTENT nodes below a FREE node and below a USED node
C17_Witness ==
    /\ last.op = "free" /\ ~last.panic
    /\ \E i, j \in Ids \ {0} :
          /\ State(i) = NOEXIST /\ State(Tree[i].parent) = FREE
          /\ State(j) = NOEXIST /\ State(Tree[j].parent) = USED

\* C20: the root is FREE or INNER, no node of a level above log2(MAXALLOC)
\* is USED, and no pointer that buddy_free accepts is located at the root,
\* so the branch of buddy_free for the root is never taken.
C20_Root ==
    /\ State(0) \in {FREE, INNER}
    /\ \A i \in Ids : Tree[i].lvl > Log2(MAXALLOC) => State(i) # USED
    /\ \A pa \in FreeInputs :
          LET c == Locate(buddy_metadata, 0, pa) IN
          (~BadPointer(pa) /\ ~NotAllocatedAt(buddy_metadata, c, pa))
              => Tree[c].id # 0

\* a block of MAXALLOC pages is allocated and a request for PAGES pages has
\* just been turned down before the lock
C20_Witness ==
    /\ last.op = "alloc" /\ last.arg = PAGES
    /\ last.ret = 0 /\ ~last.acquired
    /\ \E i \in Ids : Tree[i].lvl = Log2(MAXALLOC) /\ State(i) = USED

\* C14: of the alloc(1) calls made since buddy_init with no free in between,
\* the first PAGES succeed with distinct page-aligned addresses that make up
\* the arena, the first at Base and the second at Base + PGSIZE, and the
\* next one returns null.
C14_Fill ==
    fill.open =>
        LET r == fill.rets
            k == IF Len(r) < PAGES THEN Len(r) ELSE PAGES
        IN  /\ \A i \in 1 .. k : r[i] # 0 /\ r[i] % PGSIZE = 0
            /\ \A i, j \in 1 .. k : i # j => r[i] # r[j]
            /\ k = PAGES =>
                  {r[i] : i \in 1 .. k} = {Base + p * PGSIZE : p \in 0 .. (PAGES - 1)}
            /\ Len(r) >= 1 => r[1] = Base
            /\ Len(r) >= 2 => r[2] = Base + PGSIZE
            /\ Len(r) > PAGES => r[PAGES + 1] = 0

\* the arena has been filled and one more page was asked for
C14_Witness ==
    /\ fill.open /\ Len(fill.rets) = PAGES + 1
    /\ BagCardinality(outstanding) = PAGES
    /\ last.op = "alloc" /\ last.arg = 1 /\ last.acquired

\* C12: every step of a caller that reads or writes a node state, a list
\* link, a list head or a count is taken while that caller has the lock, at
\* most one caller has the lock, the lock is taken exactly when some caller
\* has it, and a call that returns has released it.
C12_Locking ==
    /\ \A p \in Procs : ~procs[p].unlocked
    /\ Cardinality({p \in Procs : procs[p].holds}) <= 1
    /\ buddy_metadata.lock # 0 <=> \E p \in Procs : procs[p].holds
    /\ \A p \in Procs : procs[p].pc \in {"ret", "idle"} => ~procs[p].holds

\* one caller has come back from the path that finds no free node while
\* another is merging blocks under the lock
C12_Witness ==
    \E p, q \in Procs :
        /\ p # q
        /\ procs[p].pc = "ret" /\ RequestOk(procs[p].n) /\ procs[p].ret = 0
        /\ procs[q].pc = "f_coalesce" /\ procs[q].holds /\ procs[q].iter >= 1

\* C18: whenever the condition of the coalescing loop is about to be tested
\* for a current node that is not the root, the neighbour of that node is
\* USED, INNER or FREE and its parent is INNER.
C18_CoalesceLoop ==
    \A p \in Procs :
        LET c == procs[p].cur IN
        (procs[p].pc = "f_coalesce" /\ Tree[c].id # 0)
            => /\ State(Tree[c].neighbour) \in {USED, INNER, FREE}
               /\ State(Tree[c].parent) = INNER

\* the loop has merged once and stops below the root at a buddy in use,
\* while another caller waits for the lock
C18_Witness ==
    \E p, q \in Procs :
        /\ procs[p].pc = "f_coalesce" /\ procs[p].iter >= 1
        /\ Tree[procs[p].cur].id # 0
        /\ State(Tree[procs[p].cur].neighbour) \in {USED, INNER}
        /\ procs[q].pc \in {"a_acquire", "f_acquire"}

====
